---- MODULE Spec2Model ----
(***************************************************************************)
(* popup: resolution of the window-and-content configuration (lib.rs) and  *)
(* the start-up of the process around it (main.rs).                        *)
(*                                                                         *)
(* Option<T> is a sequence of length at most one: None is <<>>, Some(x) is *)
(* <<x>>.  Result<T, E> is a record [tag, val] with tag "Ok" or "Err".     *)
(* A url is a sequence of one-character strings, so that starts_with and   *)
(* the scheme test of the url parser are computed on the characters.       *)
(* f64 dimensions are integers: the finite values; NaN and the infinities  *)
(* are not modelled.                                                       *)
(***************************************************************************)
EXTENDS Integers, Sequences, FiniteSets, TLC

VARIABLES
    args,           \* Args::parse(): the command line
    file,           \* what the path of --config holds on disk
    pc,             \* position of main
    config,         \* Option<Config>: the local `config` of main
    state,          \* AppState.config: Mutex<Option<Config>>
    window_config,  \* Option<WindowConfig>: the local of the setup closure
    window,         \* Option: the window that WebviewWindowBuilder built
    warned,         \* "Unknown title bar style" was written to stderr
    error,          \* kind of the failure that ended the process, or "none"
    exit_code,      \* Option<i32>: the exit status of the process
    reply           \* Option<Result<Config, String>>: last answer of get_config

vars == <<args, file, pc, config, state, window_config, window, warned,
          error, exit_code, reply>>

None == <<>>
Some(x) == <<x>>
Ok(x) == [tag |-> "Ok", val |-> x]
Err(e) == [tag |-> "Err", val |-> e]

(***************************************************************************)
(* Bounds of the model.                                                    *)
(***************************************************************************)
\* window flags given on a command line that has no --config
MaxCliOverrides == 2
\* window fields given per layer (file window block, command line) when a
\* file is used
MaxLayered == 1

(***************************************************************************)
(* WindowConfig (lib.rs)                                                   *)
(***************************************************************************)
BoolFields == {"resizable", "always_on_top", "skip_taskbar", "focus",
               "visible_on_all_workspaces", "closable", "minimizable",
               "hidden_title"}
WindowFields == {"width", "height", "title_bar_style"} \cup BoolFields

default_width == 800
default_height == 600
default_resizable == FALSE
default_always_on_top == TRUE
default_skip_taskbar == TRUE
default_focus == TRUE
default_visible_on_all_workspaces == TRUE
default_closable == FALSE
default_minimizable == FALSE
default_hidden_title == TRUE
default_title_bar_style == "overlay"

\* a mutant of WindowConfigDefault: the default geometry of the template
WindowConfigDefaultTemplateSize ==
    [width |-> 500, height |-> 300,
     resizable |-> default_resizable,
     always_on_top |-> default_always_on_top,
     skip_taskbar |-> default_skip_taskbar,
     focus |-> default_focus,
     visible_on_all_workspaces |-> default_visible_on_all_workspaces,
     closable |-> default_closable,
     minimizable |-> default_minimizable,
     hidden_title |-> default_hidden_title,
     title_bar_style |-> default_title_bar_style]

\* impl Default for WindowConfig
WindowConfigDefault ==
    [width |-> default_width,
     height |-> default_height,
     resizable |-> default_resizable,
     always_on_top |-> default_always_on_top,
     skip_taskbar |-> default_skip_taskbar,
     focus |-> default_focus,
     visible_on_all_workspaces |-> default_visible_on_all_workspaces,
     closable |-> default_closable,
     minimizable |-> default_minimizable,
     hidden_title |-> default_hidden_title,
     title_bar_style |-> default_title_bar_style]

\* WindowConfig::notification_template
notification_template ==
    [width |-> 500,
     height |-> 300,
     resizable |-> FALSE,
     always_on_top |-> TRUE,
     skip_taskbar |-> TRUE,
     focus |-> TRUE,
     visible_on_all_workspaces |-> TRUE,
     closable |-> FALSE,
     minimizable |-> FALSE,
     hidden_title |-> TRUE,
     title_bar_style |-> "overlay"]

\* #[serde(default = "default_<field>")] of each field of WindowConfig
SerdeFieldDefault(f) ==
    CASE f = "width" -> default_width
      [] f = "height" -> default_height
      [] f = "resizable" -> default_resizable
      [] f = "always_on_top" -> default_always_on_top
      [] f = "skip_taskbar" -> default_skip_taskbar
      [] f = "focus" -> default_focus
      [] f = "visible_on_all_workspaces" -> default_visible_on_all_workspaces
      [] f = "closable" -> default_closable
      [] f = "minimizable" -> default_minimizable
      [] f = "hidden_title" -> default_hidden_title
      [] f = "title_bar_style" -> default_title_bar_style

\* Deserialize for WindowConfig: a window block maps some of the fields
\* (block is a function on the fields it names), the others take their
\* serde default
DeserializeWindow(block) ==
    [f \in WindowFields |->
        IF f \in DOMAIN block THEN block[f] ELSE SerdeFieldDefault(f)]

\* Option::unwrap_or_default on Option<WindowConfig>
unwrap_or_default(w) == IF w = None THEN WindowConfigDefault ELSE w[1]

\* Option::unwrap_or
unwrap_or(o, d) == IF o = None THEN d ELSE o[1]

\* WindowConfig::merge_with_cli_overrides, called by the setup closure; its
\* body is not in lib.rs.  Each field is the override when there is one
\* and the field of the base otherwise; the call site uses the result as a
\* WindowConfig, so the merge does not fail.
merge_with_cli_overrides(base, width, height, resizable, always_on_top, skip_taskbar, focus, visible_on_all_workspaces, closable, minimizable, hidden_title, title_bar_style) ==
    [width |-> unwrap_or(width, base.width),
     height |-> unwrap_or(height, base.height),
     resizable |-> unwrap_or(resizable, base.resizable),
     always_on_top |-> unwrap_or(always_on_top, base.always_on_top),
     skip_taskbar |-> unwrap_or(skip_taskbar, base.skip_taskbar),
     focus |-> unwrap_or(focus, base.focus),
     visible_on_all_workspaces |->
        unwrap_or(visible_on_all_workspaces, base.visible_on_all_workspaces),
     closable |-> unwrap_or(closable, base.closable),
     minimizable |-> unwrap_or(minimizable, base.minimizable),
     hidden_title |-> unwrap_or(hidden_title, base.hidden_title),
     title_bar_style |-> unwrap_or(title_bar_style, base.title_bar_style)]

(***************************************************************************)
(* Urls                                                                    *)
(***************************************************************************)
HttpPrefix == <<"h", "t", "t", "p", ":", "/", "/">>
HttpsPrefix == <<"h", "t", "t", "p", "s", ":", "/", "/">>
FilePrefix == <<"f", "i", "l", "e", ":", "/", "/">>

\* str::starts_with
starts_with(s, p) == Len(s) >= Len(p) /\ SubSeq(s, 1, Len(p)) = p

\* the test of main on --webview: one of the three prefixes
HasAllowedScheme(url) ==
    \/ starts_with(url, HttpPrefix)
    \/ starts_with(url, HttpsPrefix)
    \/ starts_with(url, FilePrefix)

SchemeChars == {"h", "t", "p", "s", "f", "i", "l", "e", "a"}

\* webview.url.parse(): the url parser wants a scheme, letters up to a ":";
\* a string without one is a relative url without a base, an error
UrlParses(url) ==
    \E i \in 2..Len(url) :
        /\ url[i] = ":"
        /\ \A j \in 1..(i - 1) : url[j] \in SchemeChars

UrlHttp == HttpPrefix \o <<"a">>
UrlHttps == HttpsPrefix \o <<"a">>
UrlFile == FilePrefix \o <<"/", "a">>
UrlFtp == <<"f", "t", "p", ":", "/", "/", "a">>
UrlBare == <<"a", ".", "a">>
Urls == {UrlHttp, UrlHttps, UrlFile, UrlFtp, UrlBare}

(***************************************************************************)
(* The YAML document and its deserialization (lib.rs)                      *)
(*                                                                         *)
(* A document is the tree of Options that the file holds: a key that is    *)
(* absent is None.  serde_yaml::from_str fails on a required key that is   *)
(* absent and drops the keys the struct does not name.                     *)
(***************************************************************************)

\* Deserialize for Option<WebhookConfig>: url and payload are both required
\* (the failure is serde's "missing field"; it is the incomplete webhook
\* of a file)
DeserializeWebhook(raw) ==
    IF raw = None THEN Ok(None)
    ELSE IF raw[1].url = None \/ raw[1].payload = None
         THEN Err("IncompleteWebhook")
         ELSE Ok(Some([url |-> raw[1].url[1], payload |-> raw[1].payload[1]]))

\* Deserialize for Option<NotificationConfig>: title and description are
\* required; NotificationConfig names no window key, a window block in the
\* section is dropped
DeserializeNotification(raw) ==
    IF raw = None THEN Ok(None)
    ELSE LET n == raw[1]
             p == DeserializeWebhook(n.button_primary_webhook)
             s == DeserializeWebhook(n.button_secondary_webhook)
         IN  IF n.title = None \/ n.description = None THEN Err("MissingField")
             ELSE IF p.tag = "Err" THEN p
             ELSE IF s.tag = "Err" THEN s
             ELSE Ok(Some([title |-> n.title[1],
                           description |-> n.description[1],
                           icon |-> n.icon,
                           button_primary_text |-> n.button_primary_text,
                           button_primary_webhook |-> p.val,
                           button_secondary_text |-> n.button_secondary_text,
                           button_secondary_webhook |-> s.val]))

\* Deserialize for Option<CustomConfig>: url is required
DeserializeCustom(raw) ==
    IF raw = None THEN Ok(None)
    ELSE LET c == raw[1]
         IN  IF c.url = None THEN Err("MissingField")
             ELSE Ok(Some([url |-> c.url[1],
                           title |-> c.title,
                           window |-> IF c.window = None THEN None
                                      ELSE Some(DeserializeWindow(c.window[1]))]))

\* serde_yaml::from_str::<AppConfig>
DeserializeAppConfig(doc) ==
    LET n == DeserializeNotification(doc.notification)
        c == DeserializeCustom(doc.custom)
    IN  IF n.tag = "Err" THEN n
        ELSE IF c.tag = "Err" THEN c
        ELSE Ok([notification |-> n.val, custom |-> c.val])

\* a mutant of to_config: both sections present is rejected
to_config_rejecting_both(app_config) ==
    IF app_config.notification # None /\ app_config.custom # None
    THEN Err("MissingSection")
    ELSE IF app_config.notification # None
    THEN Ok([content |-> [type |-> "notification"] @@ app_config.notification[1],
             window |-> Some(notification_template)])
    ELSE IF app_config.custom # None
    THEN Ok([content |-> [type |-> "custom",
                          url |-> app_config.custom[1].url,
                          window_title |-> app_config.custom[1].title],
             window |-> Some(unwrap_or_default(app_config.custom[1].window))])
    ELSE Err("MissingSection")

\* AppConfig::to_config.  Config.window is the Option that main.rs reads
\* (config_clone.window ... unwrap_or_default()): a file always fills it.
to_config(app_config) ==
    IF app_config.notification # None
    THEN Ok([content |-> [type |-> "notification"] @@ app_config.notification[1],
             window |-> Some(notification_template)])
    ELSE IF app_config.custom # None
    THEN Ok([content |-> [type |-> "custom",
                          url |-> app_config.custom[1].url,
                          window_title |-> app_config.custom[1].title],
             window |-> Some(unwrap_or_default(app_config.custom[1].window))])
    ELSE Err("MissingSection")

\* load_config: read the file, parse it, map it
load_config(f) ==
    IF f.kind = "unreadable" THEN Err("IoError")
    ELSE IF f.kind = "malformed" THEN Err("ParseError")
    ELSE LET app_config == DeserializeAppConfig(f.doc)
         IN  IF app_config.tag = "Err" THEN app_config
             ELSE to_config(app_config.val)

(***************************************************************************)
(* The command line (main.rs)                                              *)
(***************************************************************************)

\* the match on (webhook url, webhook payload) of one button
CliWebhook(url, payload) ==
    IF url # None /\ payload # None
    THEN Ok(Some([url |-> url[1], payload |-> payload[1]]))
    ELSE IF url # None /\ payload = None
    THEN Err("IncompleteWebhook")
    ELSE Ok(None)

\* args.type.as_deref().or(if args.webview.is_some() { Some("webview") })
ContentType(a) ==
    IF a.type # None THEN a.type
    ELSE IF a.webview # None THEN Some("webview") ELSE None

\* the match on content_type: the Content built from the flags
CliContent(a) ==
    LET content_type == ContentType(a) IN
    IF content_type = None THEN Err("MissingType")
    ELSE IF content_type[1] = "webview"
    THEN LET url == IF a.url # None THEN a.url ELSE a.webview
         IN  IF url = None THEN Err("MissingField")
             ELSE Ok([type |-> "custom",
                      url |-> url[1],
                      window_title |-> a.title])
    ELSE IF content_type[1] = "notification"
    THEN LET p == CliWebhook(a.button_primary_webhook_url,
                             a.button_primary_webhook_payload)
             s == CliWebhook(a.button_secondary_webhook_url,
                             a.button_secondary_webhook_payload)
         IN  IF a.title = None THEN Err("MissingField")
             ELSE IF a.description = None THEN Err("MissingField")
             ELSE IF p.tag = "Err" THEN p
             ELSE IF s.tag = "Err" THEN s
             ELSE Ok([type |-> "notification",
                      title |-> a.title[1],
                      description |-> a.description[1],
                      icon |-> a.icon,
                      button_primary_text |-> a.button_primary_text,
                      button_primary_webhook |-> p.val,
                      button_secondary_text |-> a.button_secondary_text,
                      button_secondary_webhook |-> s.val])
    ELSE Err("UnknownType")

\* main up to `let config = ...`: the checks on the flags, then the Config
\* of the file or of the flags.  Err is an exit with status 1.
ResolveConfig(a, f) ==
    IF a.webview # None /\ ~HasAllowedScheme(a.webview[1])
    THEN Err("InvalidUrlScheme")
    ELSE IF a.config = None /\ a.type = None /\ a.webview = None
    THEN Err("MissingInput")
    ELSE IF a.config # None THEN load_config(f)
    ELSE LET content == CliContent(a)
         IN  IF content.tag = "Err" THEN content
             ELSE Ok([content |-> content.val, window |-> None])

\* a mutant of get_config: the arms of the match are exchanged
get_config_arms_exchanged(st) ==
    IF st = None THEN Ok(None) ELSE Err("No config loaded")

\* get_config: a clone of the stored Config, or the error
get_config(st) ==
    IF st # None THEN Ok(st[1]) ELSE Err("No config loaded")

\* the match on window_config.title_bar_style: the tauri::TitleBarStyle
\* given to the builder
TitleBarStyleOf(s) ==
    IF s = "overlay" THEN "Overlay"
    ELSE IF s = "transparent" THEN "Transparent"
    ELSE IF s = "visible" THEN "Visible"
    ELSE "Overlay"

KnownTitleBarStyles == {"overlay", "transparent", "visible"}

\* the first statement of the setup closure: the window of the Config, or
\* the default, under the window flags
MergedWindow(cfg, a) ==
    merge_with_cli_overrides(unwrap_or_default(cfg.window), a.width, a.height, a.resizable, a.always_on_top, a.skip_taskbar, a.focus, a.visible_on_all_workspaces, a.closable, a.minimizable, a.hidden_title, a.title_bar_style)

\* the Content::Notification arm of the setup closure: "template wins"
NotificationOverrides(w) ==
    [w EXCEPT !.width = 500, !.height = 300,
              !.resizable = FALSE, !.skip_taskbar = TRUE]

\* window_config after the match on the content
SetupWindow(cfg, a) ==
    IF cfg.content.type = "notification"
    THEN NotificationOverrides(MergedWindow(cfg, a))
    ELSE MergedWindow(cfg, a)

\* the WebviewWindowBuilder after every setter of the setup closure
WindowBuilder(cfg, w) ==
    [title |-> IF cfg.content.type = "notification"
               THEN cfg.content.title
               ELSE unwrap_or(cfg.content.window_title, "Popup"),
     width |-> w.width,
     height |-> w.height,
     resizable |-> w.resizable,
     always_on_top |-> w.always_on_top,
     skip_taskbar |-> w.skip_taskbar,
     focused |-> w.focus,
     visible_on_all_workspaces |-> w.visible_on_all_workspaces,
     closable |-> w.closable,
     minimizable |-> w.minimizable,
     hidden_title |-> w.hidden_title,
     title_bar_style |-> TitleBarStyleOf(w.title_bar_style)]

(***************************************************************************)
(* Inputs                                                                  *)
(***************************************************************************)
Opt(S) == {None} \cup {Some(x) : x \in S}

\* values of the window fields that differ from every default
Changed ==
    [width |-> 400, height |-> 200, resizable |-> TRUE,
     always_on_top |-> FALSE, skip_taskbar |-> FALSE, focus |-> FALSE,
     visible_on_all_workspaces |-> FALSE, closable |-> TRUE,
     minimizable |-> TRUE, hidden_title |-> FALSE,
     title_bar_style |-> "transparent"]

\* values of the window fields at the edges: dimensions that are not
\* positive, booleans equal to their default, a style that is not known
Odd ==
    [width |-> 0, height |-> -1, resizable |-> FALSE,
     always_on_top |-> TRUE, skip_taskbar |-> TRUE, focus |-> TRUE,
     visible_on_all_workspaces |-> TRUE, closable |-> FALSE,
     minimizable |-> FALSE, hidden_title |-> TRUE,
     title_bar_style |-> "foo"]

\* a third style, with large dimensions
Wide ==
    [width |-> 1200, height |-> 900, resizable |-> TRUE,
     always_on_top |-> TRUE, skip_taskbar |-> FALSE, focus |-> TRUE,
     visible_on_all_workspaces |-> FALSE, closable |-> TRUE,
     minimizable |-> FALSE, hidden_title |-> FALSE,
     title_bar_style |-> "visible"]

\* the sets of window fields given together: at most n of them, each from
\* one of the palettes
Overrides(n) ==
    {[f \in S |-> p[f]] :
        S \in {T \in SUBSET WindowFields : Cardinality(T) <= n},
        p \in {Changed, Odd}}
    \cup {[f \in {"title_bar_style", g} |-> Wide[f]] : g \in {"width", "focus"}}

\* the window flags of a command line
WindowFlags(ov) ==
    [f \in WindowFields |-> IF f \in DOMAIN ov THEN Some(ov[f]) ELSE None]

BaseFlags ==
    [templates |-> FALSE, config |-> None, type |-> None, url |-> None,
     title |-> None, description |-> None, icon |-> None,
     button_primary_text |-> None,
     button_primary_webhook_url |-> None,
     button_primary_webhook_payload |-> None,
     button_secondary_text |-> None,
     button_secondary_webhook_url |-> None,
     button_secondary_webhook_payload |-> None,
     webview |-> None]

NoFile == [kind |-> "unreadable"]
YamlFile(n, c) == [kind |-> "yaml", doc |-> [notification |-> n, custom |-> c]]

RawNotification(t, d, p, s, w) ==
    [title |-> t, description |-> d, icon |-> None,
     button_primary_text |-> None, button_primary_webhook |-> p,
     button_secondary_text |-> None, button_secondary_webhook |-> s,
     window |-> w]

RawCustom(u, t, w) == [url |-> u, title |-> t, window |-> w]

RawWebhooks ==
    Opt([url : Opt({"https://hook"}), payload : Opt({"{}"})])

\* command lines and files that vary the window settings around a valid
\* content
WindowInputs ==
    {[args |-> [BaseFlags EXCEPT !.type = Some("webview"),
                                 !.url = Some(UrlHttps)] @@ WindowFlags(ov),
      file |-> NoFile] : ov \in Overrides(MaxCliOverrides)}
    \cup
    {[args |-> [BaseFlags EXCEPT !.type = Some("notification"),
                                 !.title = Some("T"),
                                 !.description = Some("D")] @@ WindowFlags(ov),
      file |-> NoFile] : ov \in Overrides(MaxCliOverrides)}
    \cup
    {[args |-> [BaseFlags EXCEPT !.config = Some("popup.yaml")]
               @@ WindowFlags(ov),
      file |-> YamlFile(None, Some(RawCustom(Some(UrlHttps), Some("W"), w)))] :
        ov \in Overrides(MaxLayered), w \in Opt(Overrides(MaxLayered))}
    \cup
    {[args |-> [BaseFlags EXCEPT !.config = Some("popup.yaml")]
               @@ WindowFlags(ov),
      file |-> YamlFile(Some(RawNotification(Some("T"), Some("D"),
                                             None, None, w)), None)] :
        ov \in Overrides(MaxLayered), w \in {None, Some(Changed), Some(Odd)}}

\* command lines that vary the content, without window flags
CliContentInputs ==
    {[args |-> [BaseFlags EXCEPT !.templates = t, !.type = ty, !.url = u,
                                 !.webview = wv, !.title = ti]
               @@ WindowFlags(<<>>),
      file |-> NoFile] :
        t \in {FALSE}, ty \in Opt({"webview", "bogus"}),
        u \in Opt(Urls), wv \in Opt(Urls), ti \in Opt({"T"})}
    \cup
    {[args |-> [BaseFlags EXCEPT !.type = Some("notification"),
                                 !.webview = wv, !.title = ti,
                                 !.description = d,
                                 !.button_primary_webhook_url = pu,
                                 !.button_primary_webhook_payload = pp,
                                 !.button_secondary_webhook_url = su,
                                 !.button_secondary_webhook_payload = sp]
               @@ WindowFlags(<<>>),
      file |-> NoFile] :
        wv \in Opt({UrlBare, UrlHttp}), ti \in Opt({"T"}), d \in Opt({"D"}),
        pu \in Opt({"https://hook"}), pp \in Opt({"{}"}),
        su \in Opt({"https://hook"}), sp \in Opt({"{}"})}
    \cup
    {[args |-> [BaseFlags EXCEPT !.templates = TRUE, !.type = ty,
                                 !.webview = wv] @@ WindowFlags(<<>>),
      file |-> NoFile] :
        ty \in Opt({"webview"}), wv \in Opt({UrlBare})}

\* files that vary the content, without window flags
FileContentInputs ==
    {[args |-> [BaseFlags EXCEPT !.config = Some("popup.yaml"),
                                 !.webview = wv] @@ WindowFlags(<<>>),
      file |-> [kind |-> k]] :
        k \in {"unreadable", "malformed"}, wv \in Opt({UrlFtp, UrlHttp})}
    \cup
    {[args |-> [BaseFlags EXCEPT !.config = Some("popup.yaml")]
               @@ WindowFlags(<<>>),
      file |-> YamlFile(n, c)] :
        n \in Opt({RawNotification(t, d, p, s, None) :
                     t \in Opt({"T"}), d \in Opt({"D"}),
                     p \in RawWebhooks, s \in RawWebhooks}),
        c \in Opt({RawCustom(u, t, None) :
                     u \in Opt(Urls), t \in Opt({"W"})})}

Inputs == WindowInputs \cup CliContentInputs \cup FileContentInputs

(***************************************************************************)
(* The process                                                             *)
(***************************************************************************)
Init ==
    /\ \E inp \in Inputs : args = inp.args /\ file = inp.file
    /\ pc = "start"
    /\ config = None
    /\ state = None
    /\ window_config = None
    /\ window = None
    /\ warned = FALSE
    /\ error = "none"
    /\ exit_code = None
    /\ reply = None

Exit(code, kind) ==
    /\ pc' = "exited"
    /\ exit_code' = Some(code)
    /\ error' = kind

\* --templates: print the content types, exit(0)
Templates ==
    /\ pc = "start"
    /\ args.templates
    /\ Exit(0, "none")
    /\ UNCHANGED <<args, file, config, state, window_config, window, warned,
                   reply>>

\* a check on the flags, the file or the content fails: eprintln, exit(1)
ResolveFail ==
    /\ pc = "start"
    /\ ~args.templates
    /\ ResolveConfig(args, file).tag = "Err"
    /\ Exit(1, ResolveConfig(args, file).val)
    /\ UNCHANGED <<args, file, config, state, window_config, window, warned,
                   reply>>

\* `let config = ...` is bound
ResolveOk ==
    /\ pc = "start"
    /\ ~args.templates
    /\ ResolveConfig(args, file).tag = "Ok"
    /\ config' = Some(ResolveConfig(args, file).val)
    /\ pc' = "resolved"
    /\ UNCHANGED <<args, file, state, window_config, window, warned, error,
                   exit_code, reply>>

\* tauri_plugin_global_shortcut: with_shortcut(...) is accepted
ShortcutOk ==
    /\ pc = "resolved"
    /\ pc' = "shortcut"
    /\ UNCHANGED <<args, file, config, state, window_config, window, warned,
                   error, exit_code, reply>>

\* with_shortcut(...) is refused by the host: exit(1)
ShortcutFail ==
    /\ pc = "resolved"
    /\ Exit(1, "Shortcut")
    /\ UNCHANGED <<args, file, config, state, window_config, window, warned,
                   reply>>

\* a mutant of Manage: the state is managed empty, Mutex::new(None)
ManageEmpty ==
    /\ pc = "shortcut"
    /\ state' = None
    /\ pc' = "managed"
    /\ UNCHANGED <<args, file, config, window_config, window, warned, error,
                   exit_code, reply>>

\* .manage(AppState { config: Mutex::new(Some(config.clone())) })
Manage ==
    /\ pc = "shortcut"
    /\ state' = Some(config[1])
    /\ pc' = "managed"
    /\ UNCHANGED <<args, file, config, window_config, window, warned, error,
                   exit_code, reply>>

\* the setup closure up to the builder: merge, template, url, style
SetupOk ==
    /\ pc = "managed"
    /\ config[1].content.type = "custom" => UrlParses(config[1].content.url)
    /\ window_config' = Some(SetupWindow(config[1], args))
    /\ warned' = (SetupWindow(config[1], args).title_bar_style
                    \notin KnownTitleBarStyles)
    /\ pc' = "setup"
    /\ UNCHANGED <<args, file, config, state, window, error, exit_code,
                   reply>>

\* the setup closure fails to parse the url of the webview: exit(1)
SetupUrlFail ==
    /\ pc = "managed"
    /\ config[1].content.type = "custom"
    /\ ~UrlParses(config[1].content.url)
    /\ window_config' = Some(MergedWindow(config[1], args))
    /\ Exit(1, "UrlParse")
    /\ UNCHANGED <<args, file, config, state, window, warned, reply>>

\* window_builder.build() succeeds; run() enters the event loop
BuildOk ==
    /\ pc = "setup"
    /\ window' = Some(WindowBuilder(config[1], window_config[1]))
    /\ pc' = "running"
    /\ UNCHANGED <<args, file, config, state, window_config, warned, error,
                   exit_code, reply>>

\* window_builder.build() fails: setup returns the error, run() returns it
\* and expect() panics
BuildFail ==
    /\ pc = "setup"
    /\ Exit(101, "WindowBuild")
    /\ UNCHANGED <<args, file, config, state, window_config, window, warned,
                   reply>>

\* the command get_config, at any moment of the life of the process
GetConfig ==
    /\ pc # "exited"
    /\ reply' = Some(get_config(state))
    /\ UNCHANGED <<args, file, pc, config, state, window_config, window,
                   warned, error, exit_code>>

\* the command exit_with_code(code), sent by the page of the window
ExitWithCode ==
    /\ pc = "running"
    /\ \E code \in {0, 1} : Exit(code, "none")
    /\ UNCHANGED <<args, file, config, state, window_config, window, warned,
                   reply>>

\* the handler of the global shortcut: app.exit(0)
ShortcutHandler ==
    /\ pc = "running"
    /\ Exit(0, "none")
    /\ UNCHANGED <<args, file, config, state, window_config, window, warned,
                   reply>>

Next ==
    \/ Templates
    \/ ResolveFail
    \/ ResolveOk
    \/ ShortcutOk
    \/ ShortcutFail
    \/ Manage
    \/ SetupOk
    \/ SetupUrlFail
    \/ BuildOk
    \/ BuildFail
    \/ GetConfig
    \/ ExitWithCode
    \/ ShortcutHandler

(***************************************************************************)
(* What the inputs of a state supply                                       *)
(***************************************************************************)
FromFile == args.config # None
FromCli == args.config = None
YamlDoc == FromFile /\ file.kind = "yaml"

\* the input asks for a notification
NotificationInput ==
    \/ FromCli /\ ContentType(args) = Some("notification")
    \/ YamlDoc /\ file.doc.notification # None

\* the url and the payload supplied for each button
InputButtons ==
    IF FromCli
    THEN {[name |-> "primary",
           url |-> args.button_primary_webhook_url,
           payload |-> args.button_primary_webhook_payload],
          [name |-> "secondary",
           url |-> args.button_secondary_webhook_url,
           payload |-> args.button_secondary_webhook_payload]}
    ELSE LET n == file.doc.notification[1]
             Pair(name, raw) ==
                 IF raw = None
                 THEN [name |-> name, url |-> None, payload |-> None]
                 ELSE [name |-> name, url |-> raw[1].url,
                       payload |-> raw[1].payload]
         IN  {Pair("primary", n.button_primary_webhook),
              Pair("secondary", n.button_secondary_webhook)}

ButtonWebhook(content, name) ==
    IF name = "primary" THEN content.button_primary_webhook
    ELSE content.button_secondary_webhook

\* the window block of the custom section of the file: the fields it gives
FileWindowBlock ==
    IF YamlDoc /\ file.doc.custom # None /\ file.doc.custom[1].window # None
    THEN file.doc.custom[1].window[1]
    ELSE <<>>

\* the window flags given on the command line
GivenFlags == {f \in WindowFields : args[f] # None}

\* the YAML file that says what a command line says
YamlOf(a) ==
    LET Hook(url, payload) ==
            IF url = None /\ payload = None THEN None
            ELSE Some([url |-> url, payload |-> payload])
        given == {f \in WindowFields : a[f] # None}
    IN  IF ContentType(a) = Some("notification")
        THEN YamlFile(Some([title |-> a.title,
                            description |-> a.description,
                            icon |-> a.icon,
                            button_primary_text |-> a.button_primary_text,
                            button_primary_webhook |->
                                Hook(a.button_primary_webhook_url,
                                     a.button_primary_webhook_payload),
                            button_secondary_text |-> a.button_secondary_text,
                            button_secondary_webhook |->
                                Hook(a.button_secondary_webhook_url,
                                     a.button_secondary_webhook_payload),
                            window |-> None]),
                      None)
        ELSE YamlFile(None,
                      Some(RawCustom(IF a.url # None THEN a.url ELSE a.webview,
                                     a.title,
                                     IF given = {} THEN None
                                     ELSE Some([f \in given |-> a[f][1]]))))

(***************************************************************************)
(* Claims                                                                  *)
(***************************************************************************)

\* C1: for a notification, from a file or from the flags and whatever
\* window settings come with it, the window configuration used is the
\* template in all eleven fields.
C1_NotificationWindowIsTemplate ==
    (config # None /\ config[1].content.type = "notification"
        /\ window_config # None)
    => window_config[1] = notification_template

\* C2: for each button, a url without a payload or a payload without a
\* url makes resolution fail (with IncompleteWebhook, unless an earlier
\* check has failed already); with both, the Config holds the webhook with
\* the two values.
C2_WebhookPairs ==
    (pc # "start" /\ ~args.templates /\ NotificationInput)
    => \A b \in InputButtons :
          /\ ((b.url = None) # (b.payload = None))
                => /\ config = None
                   /\ exit_code = Some(1)
                   /\ error \in {"IncompleteWebhook", "MissingField",
                                 "InvalidUrlScheme"}
          /\ (b.url # None /\ b.payload # None /\ config # None)
                => ButtonWebhook(config[1].content, b.name)
                     = Some([url |-> b.url[1], payload |-> b.payload[1]])

\* C3: a custom content is resolved only with a url that starts with
\* http://, https:// or file://, whichever of --url, --webview or the file
\* it comes from.
C3_CustomUrlScheme ==
    (config # None /\ config[1].content.type = "custom")
    => HasAllowedScheme(config[1].content.url)

\* the defaults that C4 states
C4_Defaults ==
    [width |-> 800, height |-> 600, resizable |-> FALSE,
     always_on_top |-> TRUE, skip_taskbar |-> TRUE, focus |-> TRUE,
     visible_on_all_workspaces |-> TRUE, closable |-> FALSE,
     minimizable |-> FALSE, hidden_title |-> TRUE,
     title_bar_style |-> "overlay"]

DocumentMapped ==
    /\ pc # "start"
    /\ ~args.templates
    /\ YamlDoc
    /\ args.webview = None
    /\ DeserializeAppConfig(file.doc).tag = "Ok"

C6_NoPartialSuccess ==
    (error \notin {"none", "Shortcut", "WindowBuild"})
    => /\ exit_code = Some(1)
       /\ state = None
       /\ window = None

\* C7: the Config of a command line is the Config of the YAML file that
\* says the same: same content, same window.
C7_FileCliRoundTrip ==
    (FromCli /\ config # None)
    => /\ load_config(YamlOf(args)).tag = "Ok"
       /\ load_config(YamlOf(args)).val = config[1]

\* C8: the shared state is written once, with the resolved Config, and
\* keeps it; get_config answers "No config loaded" before that and a copy
\* of the stored Config after it, and leaves the state as it is.
C8_WriteOnceReadMany ==
    [][/\ state # None => state' = state
       /\ state' # None => state' = config'
       /\ GetConfig =>
            /\ state' = state
            /\ reply'[1].tag = (IF state = None THEN "Err" ELSE "Ok")
            /\ state = None => reply'[1].val = "No config loaded"
            /\ state # None => reply'[1].val = config[1]]_vars

\* get_config has answered with the Config while the window is open
C8_Witness ==
    /\ pc = "running"
    /\ reply # None
    /\ reply[1].tag = "Ok"
    /\ reply[1].val = state[1]

\* C9: the width and the height of every resolved window are positive: a
\* value that is not fails resolution.
C9_PositiveDimensions ==
    /\ (config # None /\ config[1].window # None)
         => /\ config[1].window[1].width > 0
            /\ config[1].window[1].height > 0
    /\ window_config # None
         => /\ window_config[1].width > 0
            /\ window_config[1].height > 0

\* C10: once the window is set up, the title_bar_style of the Config is
\* one of overlay, transparent and visible.
C10_TitleBarStyleNormalized ==
    (pc \in {"setup", "running"} /\ state[1].window # None)
    => state[1].window[1].title_bar_style \in KnownTitleBarStyles

\* C11 as stated: the shared state holds a Config only once the window
\* exists.
C11_StoredAfterWindow ==
    state # None => window # None

\* C11 amended: the Config is placed in the shared state before the window
\* is created: the setup closure runs, and the window exists, only with the
\* resolved Config in the shared state, and while the closure has not built
\* the window (or has failed to) the state holds the Config without a
\* window.
C11_StoredBeforeWindow ==
    /\ (window_config # None \/ window # None)
         => state # None /\ state = config
    /\ pc \in {"managed", "setup"} => state # None /\ window = None
    /\ error \in {"UrlParse", "WindowBuild"} => state # None /\ window = None

\* the Config is stored and the creation of the window has failed
C11_Witness ==
    /\ error = "WindowBuild"
    /\ state # None
    /\ state = config
    /\ window = None

\* C12: the window configuration in the Config that get_config returns
\* (the default one when the Config holds none) is, field by field, the
\* window configuration the window was created with, and its
\* title_bar_style is the style applied to the window.
C12_ReturnedWindowIsUsedWindow ==
    (pc = "running" /\ reply # None /\ reply[1].tag = "Ok")
    => LET returned == unwrap_or_default(reply[1].val.window)
       IN  /\ \A f \in WindowFields : returned[f] = window_config[1][f]
           /\ returned.width = window[1].width
           /\ returned.height = window[1].height
           /\ returned.title_bar_style \in KnownTitleBarStyles
           /\ TitleBarStyleOf(returned.title_bar_style)
                 = window[1].title_bar_style

Spec == Init /\ [][Next]_vars

====
